---- MODULE Spec2Model ----
(***************************************************************************)
(* The event dispatch core (class Events): two per-event handler           *)
(* registries, a dispatch flag and three deferral queues.                   *)
(*                                                                         *)
(* A handler list holds registrations: the r-th call of on/once creates    *)
(* registration r, whose handler identity is regs[r].handler.  The code    *)
(* stores the handler reference itself; removeListener compares by that    *)
(* identity, so two registrations of one handler are removed together.     *)
(* The other fields of regs[r], the history fields of a call and the       *)
(* variable last (the record of the call that settled last) are history    *)
(* only and never read by the operations.                                  *)
(*                                                                         *)
(* An absent key of onHandlers/onceHandlers and a key holding [] behave    *)
(* alike in emit (a for-of over [] ends at once), so both are <<>>.        *)
(*                                                                         *)
(* The argument list of an emit call is a fresh array for each call; it    *)
(* is identified with the call, so the value a waitFor promise resolves    *)
(* with is the id of the call whose arguments it received (0: pending).    *)
(***************************************************************************)
EXTENDS Integers, Sequences, FiniteSets, TLC

Keys == {"x", "y"}
Handlers == {"A", "B"}

\* Bound of the exploration: the number of on, once, removeListener and emit calls.
MaxOps == 4

VARIABLES onHandlers, onceHandlers, toRegisterOn, toRegisterOnce, toRemove,
          isEmitting, calls, regs, last, removes, rmArg, pre, typed

\* The singleton Game of API/Game.ts with its GameSettings, the packets sent
\* to the client, and the calls of Game.start.
VARIABLES instance, running, cache, store, sent, starts, ready, fetches,
          ext, lastSet, lastCall

gvars == <<instance, running, cache, store, sent, starts, ready, fetches,
           ext, lastSet, lastCall>>

vars == <<onHandlers, onceHandlers, toRegisterOn, toRegisterOnce, toRemove,
          isEmitting, calls, regs, last, removes, rmArg, pre, typed, gvars>>

GAME_NAME_KEY == "game_name"
GAME_VERSION_KEY == "game_version"

\* A key that names a property every object inherits from Object.prototype:
\* the cache is an object literal, so `key in this.cache` is true for it also
\* when the cache has no entry of its own, and reading it gives a function.
Inherited == {"toString"}
InheritedValue == "function"

SettingKeys == {GAME_NAME_KEY, GAME_VERSION_KEY} \cup Inherited

\* The strings given as titles and versions, and null.
Values == {"a", "b"}
Null == "null"

\* Before Game.start: no instance, an empty cache and an empty settings
\* file, nothing sent, no "ready" handler registered.
InitGame ==
  /\ instance = FALSE
  /\ running = TRUE
  /\ cache = [k \in SettingKeys |-> Null]
  /\ store = [k \in SettingKeys |-> Null]
  /\ sent = <<>>
  /\ starts = <<>>
  /\ ready = [handlers |-> <<>>, invoked |-> <<>>, idx |-> 0, emits |-> 0,
              initSent |-> FALSE, fetchesBefore |-> 0]
  /\ fetches = 0
  /\ ext = 0
  /\ lastSet = [what |-> "none", value |-> Null, title |-> Null, version |-> Null]
  /\ lastCall = [what |-> "none"]

\* The whole state as one value, so that the operations compose.
Bus ==
  [onHandlers |-> onHandlers, onceHandlers |-> onceHandlers,
   toRegisterOn |-> toRegisterOn, toRegisterOnce |-> toRegisterOnce,
   toRemove |-> toRemove, isEmitting |-> isEmitting,
   calls |-> calls, regs |-> regs, last |-> last, typed |-> typed]

Become(S) ==
  /\ onHandlers' = S.onHandlers
  /\ onceHandlers' = S.onceHandlers
  /\ toRegisterOn' = S.toRegisterOn
  /\ toRegisterOnce' = S.toRegisterOnce
  /\ toRemove' = S.toRemove
  /\ isEmitting' = S.isEmitting
  /\ calls' = S.calls
  /\ regs' = S.regs
  /\ last' = S.last
  /\ typed' = S.typed
  /\ UNCHANGED gvars

Range(s) == {s[i] : i \in DOMAIN s}

\* The array with the elements f[1], ..., f[n], built by push.
RECURSIVE ArrayOf(_, _)
ArrayOf(f, n) == IF n = 0 THEN <<>> ELSE Append(ArrayOf(f, n - 1), f[n])

Min(a, b) == IF a < b THEN a ELSE b

RECURSIVE FilterSeq(_, _)
FilterSeq(s, keep) ==
  IF s = <<>> THEN <<>>
  ELSE IF keep[Head(s)] THEN <<Head(s)>> \o FilterSeq(Tail(s), keep)
       ELSE FilterSeq(Tail(s), keep)

\* The record of an emit call that has not started its first handler.
NoCall ==
  [id |-> 0, event |-> "x", parent |-> 0, wasEmitting |-> FALSE,
   status |-> "none", pc |-> "on", arr |-> <<>>, idx |-> 0, alias |-> FALSE,
   invoked |-> <<>>, nOn |-> 0, rejAt |-> 0, snapOn |-> <<>>, snapOnce |-> <<>>,
   regsAtStart |-> 0, alone |-> FALSE, flagAfter |-> FALSE,
   done |-> 0, flushed |-> 0, fromOn |-> FALSE]

\* A settled call keeps its status only; its full record goes to last.
Settle(S, c, st) ==
  [S EXCEPT !.last = [S.calls[c] EXCEPT !.status = st, !.flagAfter = S.isEmitting],
            !.calls[c] = [NoCall EXCEPT !.id = c, !.status = st]]

Running(S) == {c \in DOMAIN S.calls : S.calls[c].status = "running"}

\* A call whose current handler is not itself awaiting a nested emit.
Runnable(S) ==
  {c \in Running(S) : \A d \in Running(S) : S.calls[d].parent # c}

(***************************************************************************)
(* Array identity.  A running emit iterates the array object it read from  *)
(* the registry when its loop began (calls[c].arr); calls[c].alias says    *)
(* that the registry still holds that same object, so that a push is seen  *)
(* by the loop.  filter and delete put a new object (or none) in the       *)
(* registry and leave the loop on the old one.                             *)
(***************************************************************************)
PushSeen(cs, pass, e, r) ==
  ArrayOf([c \in DOMAIN cs |->
     IF cs[c].status = "running" /\ cs[c].pc = pass /\ cs[c].event = e /\ cs[c].alias
     THEN [cs[c] EXCEPT !.arr = Append(@, r)]
     ELSE cs[c]], Len(cs))

\* A variant of DoOn: the handler is put at the front of the list.
DoOnFront(S, e, r) ==
  IF S.isEmitting
  THEN [S EXCEPT !.toRegisterOn = Append(@, <<e, r>>)]
  ELSE [S EXCEPT !.onHandlers[e] = <<r>> \o @]

\* on(event, handler); the class Events<A> of part_005 (typed) has no queue
\* for additions and pushes at once.
DoOn(S, e, r) ==
  IF S.isEmitting /\ ~S.typed
  THEN [S EXCEPT !.toRegisterOn = Append(@, <<e, r>>)]
  ELSE [S EXCEPT !.onHandlers[e] = Append(@, r),
                 !.calls = PushSeen(@, "on", e, r)]

\* once(event, handler)
DoOnce(S, e, r) ==
  IF S.isEmitting /\ ~S.typed
  THEN [S EXCEPT !.toRegisterOn = Append(@, <<e, r>>)]
  ELSE [S EXCEPT !.onceHandlers[e] = Append(@, r),
                 !.calls = PushSeen(@, "once", e, r)]

\* A variant of DoRemove: the lists are filtered whatever the dispatch flag is.
DoRemoveNow(S, h) ==
  LET keep == [r \in DOMAIN S.regs |-> S.regs[r].handler # h]
  IN [S EXCEPT
        !.onHandlers = [e \in Keys |-> FilterSeq(S.onHandlers[e], keep)],
        !.onceHandlers = [e \in Keys |-> FilterSeq(S.onceHandlers[e], keep)],
        !.calls = ArrayOf([c \in DOMAIN S.calls |->
                             [S.calls[c] EXCEPT !.alias = FALSE]], Len(S.calls))]

\* removeListener(handler)
DoRemove(S, h) ==
  IF S.isEmitting
  THEN [S EXCEPT !.toRemove = Append(@, h)]
  ELSE LET keep == [r \in DOMAIN S.regs |-> S.regs[r].handler # h]
       IN [S EXCEPT
             !.onHandlers = [e \in Keys |-> FilterSeq(S.onHandlers[e], keep)],
             !.onceHandlers = [e \in Keys |-> FilterSeq(S.onceHandlers[e], keep)],
             !.calls = ArrayOf([c \in DOMAIN S.calls |->
                                  [S.calls[c] EXCEPT !.alias = FALSE]], Len(S.calls))]

RECURSIVE FlushOn(_, _)
FlushOn(S, q) ==
  IF q = <<>> THEN S ELSE FlushOn(DoOn(S, Head(q)[1], Head(q)[2]), Tail(q))

RECURSIVE FlushOnce(_, _)
FlushOnce(S, q) ==
  IF q = <<>> THEN S ELSE FlushOnce(DoOnce(S, Head(q)[1], Head(q)[2]), Tail(q))

RECURSIVE FlushRemove(_, _)
FlushRemove(S, q) ==
  IF q = <<>> THEN S ELSE FlushRemove(DoRemove(S, Head(q)), Tail(q))

\* A variant of Finish: the flush applies the queued removals first.
FinishRemovesFirst(S, c) ==
  LET S0 == Settle([S EXCEPT !.isEmitting = S.calls[c].wasEmitting], c, "resolved")
      S1 == [S0 EXCEPT !.last.flushed =
               IF S0.isEmitting THEN 0
               ELSE Len(S.toRegisterOn) + Len(S.toRegisterOnce) + Len(S.toRemove)]
  IN IF S1.isEmitting THEN S1
     ELSE LET S2 == [FlushRemove(S1, S1.toRemove) EXCEPT !.toRemove = <<>>]
              S3 == [FlushOn(S2, S2.toRegisterOn) EXCEPT !.toRegisterOn = <<>>]
          IN [FlushOnce(S3, S3.toRegisterOnce) EXCEPT !.toRegisterOnce = <<>>]

\* A variant of Finish: the flag is set to false instead of restored.
FinishResets(S, c) ==
  LET S0 == Settle([S EXCEPT !.isEmitting = FALSE], c, "resolved")
      S1 == [S0 EXCEPT !.last.flushed =
               Len(S.toRegisterOn) + Len(S.toRegisterOnce) + Len(S.toRemove)]
      S2 == [FlushOn(S1, S1.toRegisterOn) EXCEPT !.toRegisterOn = <<>>]
      S3 == [FlushOnce(S2, S2.toRegisterOnce) EXCEPT !.toRegisterOnce = <<>>]
  IN [FlushRemove(S3, S3.toRemove) EXCEPT !.toRemove = <<>>]

\* A variant of Finish: the queues are applied and not emptied.
FinishNoClear(S, c) ==
  LET S0 == Settle([S EXCEPT !.isEmitting = S.calls[c].wasEmitting], c, "resolved")
      S1 == [S0 EXCEPT !.last.flushed =
               IF S0.isEmitting THEN 0
               ELSE Len(S.toRegisterOn) + Len(S.toRegisterOnce) + Len(S.toRemove)]
  IN IF S1.isEmitting THEN S1
     ELSE FlushRemove(FlushOnce(FlushOn(S1, S1.toRegisterOn), S1.toRegisterOnce),
                      S1.toRemove)

\* The end of emit: restore the flag and, when it is false, apply the queues.
Finish(S, c) ==
  LET S0 == Settle([S EXCEPT !.isEmitting = S.calls[c].wasEmitting], c, "resolved")
      S1 == [S0 EXCEPT !.last.flushed =
               IF S0.isEmitting THEN 0
               ELSE Len(S.toRegisterOn) + Len(S.toRegisterOnce) + Len(S.toRemove)]
  IN IF S1.isEmitting THEN S1
     ELSE LET S2 == [FlushOn(S1, S1.toRegisterOn) EXCEPT !.toRegisterOn = <<>>]
              S3 == [FlushOnce(S2, S2.toRegisterOnce) EXCEPT !.toRegisterOnce = <<>>]
          IN [FlushRemove(S3, S3.toRemove) EXCEPT !.toRemove = <<>>]

\* A variant of Invoke: a later invocation overwrites the value of the promise.
InvokeLastWins(S, c, r) ==
  [S EXCEPT !.calls[c].invoked = Append(@, r),
            !.calls[c].nOn = IF S.calls[c].pc = "on" THEN @ + 1 ELSE @,
            !.regs[r].count = Min(@ + 1, 2),
            !.regs[r].firstCall = IF @ = 0 THEN c ELSE @,
            !.regs[r].value = IF S.regs[r].wait THEN c ELSE @]

\* await handler(...args): call c invokes the handler of registration r.  The
\* handler of a waitFor resolves its promise with the arguments; resolving a
\* promise that is resolved already changes nothing.
Invoke(S, c, r) ==
  [S EXCEPT !.calls[c].invoked = Append(@, r),
            !.calls[c].nOn = IF S.calls[c].pc = "on" THEN @ + 1 ELSE @,
            !.regs[r].count = Min(@ + 1, 2),
            !.regs[r].firstCall = IF @ = 0 THEN c ELSE @,
            !.regs[r].value = IF S.regs[r].wait /\ @ = 0 THEN c ELSE @]

\* A variant of OncePass: the second pass walks the persistent list again
\* before the one-shot list.
OncePassAll(S, c) ==
  LET e == S.calls[c].event
      l == S.onHandlers[e] \o S.onceHandlers[e]
  IN IF l = <<>> THEN Finish(S, c)
     ELSE Invoke([S EXCEPT !.calls[c].pc = "once", !.calls[c].arr = l,
                           !.calls[c].idx = 1, !.calls[c].alias = TRUE],
                 c, l[1])

\* The one-shot pass begins: read the list and invoke its first handler.
OncePass(S, c) ==
  LET e == S.calls[c].event
      l == S.onceHandlers[e]
  IN IF l = <<>> THEN Finish(S, c)
     ELSE Invoke([S EXCEPT !.calls[c].pc = "once", !.calls[c].arr = l,
                           !.calls[c].idx = 1, !.calls[c].alias = TRUE],
                 c, l[1])

\* A variant of DeleteOnce: the persistent list of the event is deleted as well.
DeleteBoth(S, c) ==
  LET e == S.calls[c].event
  IN [S EXCEPT !.onceHandlers[e] = <<>>,
               !.onHandlers[e] = <<>>,
               !.calls = ArrayOf([d \in DOMAIN S.calls |->
                  IF S.calls[d].event = e
                  THEN [S.calls[d] EXCEPT !.alias = FALSE] ELSE S.calls[d]],
                  Len(S.calls))]

\* delete this.onceHandlers[event]
DeleteOnce(S, c) ==
  LET e == S.calls[c].event
  IN [S EXCEPT !.onceHandlers[e] = <<>>,
               !.calls = ArrayOf([d \in DOMAIN S.calls |->
                  IF S.calls[d].pc = "once" /\ S.calls[d].event = e
                  THEN [S.calls[d] EXCEPT !.alias = FALSE] ELSE S.calls[d]],
                  Len(S.calls))]

\* A variant of Resume: a loop that has reached the end of a list of two or
\* more handlers starts over at the first one.
ResumeRestarts(S, c) ==
  LET k == S.calls[c]
  IN IF k.idx < Len(k.arr) THEN [S EXCEPT !.calls[c].idx = k.idx + 1]
     ELSE IF k.idx > 1 THEN [S EXCEPT !.calls[c].idx = 1]
     ELSE IF k.pc = "on" THEN OncePass(S, c)
          ELSE Finish(DeleteOnce(S, c), c)

\* A variant of Resume: the next two handlers are started together.
ResumeEager(S, c) ==
  LET k == S.calls[c]
      D == [S EXCEPT !.calls[c].done = @ + 1]
  IN IF k.idx + 1 < Len(k.arr)
     THEN Invoke(Invoke([D EXCEPT !.calls[c].idx = k.idx + 2], c, k.arr[k.idx + 1]),
                 c, k.arr[k.idx + 2])
     ELSE IF k.idx < Len(k.arr)
     THEN Invoke([D EXCEPT !.calls[c].idx = k.idx + 1], c, k.arr[k.idx + 1])
     ELSE IF k.pc = "on" THEN OncePass(D, c)
          ELSE Finish(DeleteOnce(D, c), c)

\* The awaited handler resolved: the loop of call c goes on.
Resume(S, c) ==
  LET k == S.calls[c]
      D == [S EXCEPT !.calls[c].done = @ + 1]
  IN IF k.idx < Len(k.arr)
     THEN Invoke([D EXCEPT !.calls[c].idx = k.idx + 1], c, k.arr[k.idx + 1])
     ELSE IF k.pc = "on" THEN OncePass(D, c)
          ELSE Finish(DeleteOnce(D, c), c)

\* A variant of Reject: the rejection is noted and the loop goes on.
RejectLate(S, c) ==
  Resume([S EXCEPT !.calls[c].rejAt = Len(S.calls[c].invoked)], c)

\* A variant of Reject: the rejected call still resolves the waitFor promises
\* of its key.
RejectResolvesWaiters(S, c) ==
  LET e == S.calls[c].event
      T == Settle([S EXCEPT !.calls[c].rejAt = Len(S.calls[c].invoked)], c, "rejected")
  IN [T EXCEPT !.regs = ArrayOf([r \in DOMAIN T.regs |->
        IF T.regs[r].wait /\ T.regs[r].value = 0 /\ r \in Range(S.onceHandlers[e])
        THEN [T.regs[r] EXCEPT !.value = c] ELSE T.regs[r]], Len(T.regs))]

\* The awaited handler rejected: emit ends there, by the exception.
Reject(S, c) ==
  Settle([S EXCEPT !.calls[c].rejAt = Len(S.calls[c].invoked)], c, "rejected")

\* History: the first emit of its key that starts after a registration.
MarkNext(S, e, c) ==
  [S EXCEPT !.regs = ArrayOf([r \in DOMAIN S.regs |->
     IF S.regs[r].event = e /\ S.regs[r].nextCall = 0
     THEN [S.regs[r] EXCEPT !.nextCall = c] ELSE S.regs[r]], Len(S.regs))]

\* emit(event): up to the first await, or to the end when no handler is registered.
Start(S, e, p) ==
  LET c == Len(S.calls) + 1
      l == S.onHandlers[e]
      k == [NoCall EXCEPT !.id = c, !.event = e, !.parent = p,
              !.wasEmitting = S.isEmitting, !.status = "running", !.pc = "on",
              !.arr = l, !.idx = 1, !.alias = TRUE,
              !.snapOn = l, !.snapOnce = S.onceHandlers[e],
              !.regsAtStart = Len(S.regs), !.alone = (Running(S) = {}),
              !.fromOn = (p # 0 /\ S.calls[p].pc = "on")]
      S1 == [MarkNext(S, e, c) EXCEPT !.isEmitting = TRUE, !.calls = Append(@, k)]
  IN IF l = <<>> THEN OncePass(S1, c) ELSE Invoke(S1, c, l[1])

\* The handler waitFor passes to once: a closure no caller holds, so that
\* removeListener is never called with it.
Wrapper == "w"

NewReg(S, e, h, kind) ==
  [event |-> e, handler |-> h, kind |-> kind, deferred |-> Running(S) # {},
   count |-> 0, nextCall |-> 0, rmAt |-> -1, rmDeferred |-> FALSE,
   addRej |-> FALSE, rmRej |-> FALSE,
   wait |-> (h = Wrapper), value |-> 0, firstCall |-> 0]

\* History: the first removeListener call for the handler of a registration.
MarkRemoved(S, h) ==
  [S EXCEPT !.regs = ArrayOf([r \in DOMAIN S.regs |->
     IF S.regs[r].handler = h /\ S.regs[r].rmAt = -1
     THEN [S.regs[r] EXCEPT !.rmAt = Len(S.calls), !.rmDeferred = Running(S) # {}]
     ELSE S.regs[r]], Len(S.regs))]

\* History: what was queued during a top-level emit that rejects.
MarkRejected(S, c) ==
  IF S.calls[c].parent # 0 THEN S
  ELSE [S EXCEPT !.regs = ArrayOf([r \in DOMAIN S.regs |->
     [S.regs[r] EXCEPT
        !.addRej = @ \/ (r > S.calls[c].regsAtStart
                         /\ \E i \in DOMAIN S.toRegisterOn \cup DOMAIN S.toRegisterOnce :
                              \/ (i \in DOMAIN S.toRegisterOn /\ S.toRegisterOn[i][2] = r)
                              \/ (i \in DOMAIN S.toRegisterOnce /\ S.toRegisterOnce[i][2] = r)),
        !.rmRej = @ \/ (S.regs[r].rmAt >= c /\ S.regs[r].handler \in Range(S.toRemove))]],
     Len(S.regs))]

\* The number of calls of the four operations made so far.
Ops == Len(regs) + removes + Len(calls) - pre

\* The handler call c is awaiting.
Current(c) == regs[calls[c].arr[calls[c].idx]]

Init ==
  /\ onHandlers = [e \in Keys |-> <<>>]
  /\ onceHandlers = [e \in Keys |-> <<>>]
  /\ toRegisterOn = <<>>
  /\ toRegisterOnce = <<>>
  /\ toRemove = <<>>
  /\ isEmitting = FALSE
  /\ calls = <<>>
  /\ regs = <<>>
  /\ last = NoCall
  /\ removes = 0
  /\ rmArg = "none"
  /\ pre = 0
  /\ typed = FALSE
  /\ InitGame

On(e, h) ==
  /\ Ops < MaxOps
  /\ Become(DoOn([Bus EXCEPT !.regs = Append(@, NewReg(Bus, e, h, "on"))],
                 e, Len(regs) + 1))
  /\ UNCHANGED <<removes, rmArg, pre>>

Once(e, h) ==
  /\ Ops < MaxOps
  /\ Become(DoOnce([Bus EXCEPT !.regs = Append(@, NewReg(Bus, e, h, "once"))],
                   e, Len(regs) + 1))
  /\ UNCHANGED <<removes, rmArg, pre>>

\* waitFor(event): once(event, async (...args) => resolve(args))
WaitFor(e) ==
  /\ Ops < MaxOps
  /\ Become(DoOnce([Bus EXCEPT !.regs = Append(@, NewReg(Bus, e, Wrapper, "once"))],
                   e, Len(regs) + 1))
  /\ UNCHANGED <<removes, rmArg, pre>>

RemoveListener(h) ==
  /\ Ops < MaxOps
  /\ removes' = removes + 1
  /\ rmArg' = h
  /\ Become(DoRemove(MarkRemoved(Bus, h), h))
  /\ UNCHANGED pre

\* emit called by a task that is not an awaited handler of a running emit.
Emit(e) ==
  /\ Ops < MaxOps
  /\ Become(Start(Bus, e, 0))
  /\ UNCHANGED <<removes, rmArg, pre>>

\* emit called and awaited by the handler that call p is awaiting.
EmitNested(p, e) ==
  /\ Ops < MaxOps
  /\ p \in Runnable(Bus)
  /\ ~Current(p).wait
  /\ Become(Start(Bus, e, p))
  /\ UNCHANGED <<removes, rmArg, pre>>

HandlerResolves(c) ==
  /\ c \in Runnable(Bus)
  /\ Become(Resume(Bus, c))
  /\ UNCHANGED <<removes, rmArg, pre>>

HandlerRejects(c) ==
  /\ c \in Runnable(Bus)
  /\ ~Current(c).wait
  /\ Become(Reject(MarkRejected(Bus, c), c))
  /\ UNCHANGED <<removes, rmArg, pre>>

Next ==
  \/ \E e \in Keys, h \in Handlers : On(e, h)
  \/ \E e \in Keys, h \in Handlers : Once(e, h)
  \/ \E e \in Keys : WaitFor(e)
  \/ \E h \in Handlers : RemoveListener(h)
  \/ \E e \in Keys : Emit(e)
  \/ \E p \in 1..MaxOps, e \in Keys : EmitNested(p, e)
  \/ \E c \in 1..MaxOps : HandlerResolves(c)
  \/ \E c \in 1..MaxOps : HandlerRejects(c)

Spec == Init /\ [][Next]_vars

\* The bus after on("x", "A"), called on the fresh bus.
InitA ==
  /\ onHandlers = [e \in Keys |-> IF e = "x" THEN <<1>> ELSE <<>>]
  /\ onceHandlers = [e \in Keys |-> <<>>]
  /\ toRegisterOn = <<>>
  /\ toRegisterOnce = <<>>
  /\ toRemove = <<>>
  /\ isEmitting = FALSE
  /\ calls = <<>>
  /\ regs = <<[event |-> "x", handler |-> "A", kind |-> "on", deferred |-> FALSE,
               count |-> 0, nextCall |-> 0, rmAt |-> -1, rmDeferred |-> FALSE,
               addRej |-> FALSE, rmRej |-> FALSE,
               wait |-> FALSE, value |-> 0, firstCall |-> 0]>>
  /\ last = NoCall
  /\ removes = 0
  /\ rmArg = "none"
  /\ pre = 1
  /\ typed = FALSE
  /\ InitGame

\* The runs that begin with on("x", "A").
SpecA == InitA /\ [][Next]_vars

\* A new Events<A>() of part_005: the same fields without the two queues of
\* additions, which stay empty.
InitTyped ==
  /\ onHandlers = [e \in Keys |-> <<>>]
  /\ onceHandlers = [e \in Keys |-> <<>>]
  /\ toRegisterOn = <<>>
  /\ toRegisterOnce = <<>>
  /\ toRemove = <<>>
  /\ isEmitting = FALSE
  /\ calls = <<>>
  /\ regs = <<>>
  /\ last = NoCall
  /\ removes = 0
  /\ rmArg = "none"
  /\ pre = 0
  /\ typed = TRUE
  /\ InitGame

\* The runs of the class Events<A> of part_005.
SpecTyped == InitTyped /\ [][Next]_vars

\* Weak fairness of the resolution of awaited handlers, WF_vars(\E c :
\* HandlerResolves(c)), with its ENABLED written out: a handler can resolve
\* exactly when some call is runnable, and its resolution always changes the
\* state.  Either no handler is pending infinitely often, or handlers
\* resolve infinitely often.
HandlersSettle ==
  \/ []<>(Runnable(Bus) = {})
  \/ []<><<\E c \in 1..MaxOps : HandlerResolves(c)>>_vars

\* The runs in which the handlers that emit calls await settle: as long as a
\* handler is pending, one that does not reject resolves in the end.
SpecFair == Init /\ [][Next]_vars /\ HandlersSettle

(***************************************************************************)
(* The Game singleton (API/Game.ts), its settings (API/Settings.ts) and    *)
(* the packet handler (handlePacket).  The event bus of Game is seen here  *)
(* through the key "ready" only: Game.once("ready", h) calls made before   *)
(* Game.start, while the bus is idle, and the emit("ready") of Game.start. *)
(* ready.handlers is the one-shot list of "ready" (handler ids), and       *)
(* ready.invoked counts the invocations of each handler.                   *)
(***************************************************************************)
MaxStarts == 2
MaxPackets == 2
MaxExt == 2
MaxReady == 2

\* The bus variables, which the steps of the game leave alone.
evars == <<onHandlers, onceHandlers, toRegisterOn, toRegisterOnce, toRemove,
           isEmitting, calls, regs, last, removes, rmArg, pre, typed>>

PacketTypes == {"shutdown", "fileDrop"}

\* No default given to getSetting.
Undefined == "undefined"

Settings == [cache |-> cache, store |-> store]

\* GameSettings.setSetting(key, value); value null removes the key.
SetSetting(S, key, value) ==
  [cache |-> [S.cache EXCEPT ![key] = value],
   store |-> [S.store EXCEPT ![key] = value]]

\* key in this.cache
InCache(S, key) == S.cache[key] # Null \/ key \in Inherited

\* this.cache[key], for a key that is in the cache
CacheRead(S, key) == IF S.cache[key] # Null THEN S.cache[key] ELSE InheritedValue

\* GameSettings.getSetting(key, def): the value returned and the settings left.
GetSetting(S, key, def) ==
  IF InCache(S, key) THEN [value |-> CacheRead(S, key), settings |-> S]
  ELSE LET value == S.store[key]
       IN IF value = Null /\ def # Undefined
          THEN [value |-> def,
                settings |-> [SetSetting(S, key, def) EXCEPT !.cache[key] = def]]
          ELSE IF value # Null
          THEN [value |-> value, settings |-> [S EXCEPT !.cache[key] = value]]
          ELSE [value |-> value, settings |-> S]

\* What the getters Game.title and Game.version return.
Title == GetSetting(Settings, GAME_NAME_KEY, "Awgen Game Engine").value
Version == GetSetting(Settings, GAME_VERSION_KEY, "0.0.1").value

\* The part of the game that shutdown and handlePacket work on.
Client == [running |-> running, sent |-> sent]

\* Game.shutdown without the check of running.
ShutdownAgain(G, alertClient) ==
  [running |-> FALSE,
   sent |-> IF alertClient THEN Append(G.sent, "Shutdown") ELSE G.sent]

\* Game.shutdown(alertClient), the instance existing.
Shutdown(G, alertClient) ==
  IF ~G.running THEN G
  ELSE [running |-> FALSE,
        sent |-> IF alertClient THEN Append(G.sent, "Shutdown") ELSE G.sent]

\* handlePacket(packet)
HandlePacket(G, type) ==
  IF type = "shutdown" THEN Shutdown(G, FALSE)
  ELSE [G EXCEPT !.sent = Append(@, "ImportAsset")]

\* Game.once("ready", h), before Game.start.
GameOnce ==
  /\ ~instance
  /\ Len(ready.handlers) < MaxReady
  /\ ready' = [ready EXCEPT !.handlers = Append(@, Len(ready.invoked) + 1),
                            !.invoked = Append(@, 0)]
  /\ UNCHANGED <<evars, lastCall>>
  /\ UNCHANGED <<instance, running, cache, store, sent, starts, fetches, ext, lastSet>>

\* Game.start without the check of Game.instance: every call constructs.
GameStartAgain(title, version) ==
  /\ Len(starts) < MaxStarts
  /\ LET S == SetSetting(SetSetting(Settings, GAME_NAME_KEY, title),
                         GAME_VERSION_KEY, version)
         h == ready.handlers
     IN /\ instance' = TRUE
        /\ running' = TRUE
        /\ cache' = S.cache
        /\ store' = S.store
        /\ sent' = Append(sent, "Init")
        /\ ready' = [ready EXCEPT
                       !.emits = @ + 1,
                       !.initSent = "Init" \in Range(sent'),
                       !.fetchesBefore = fetches,
                       !.idx = IF h = <<>> THEN 0 ELSE 1,
                       !.invoked = IF h = <<>> THEN @
                                   ELSE [@ EXCEPT ![h[1]] = @ + 1]]
        /\ starts' = Append(starts,
              [op |-> "start", pc |-> IF h = <<>> THEN "loop" ELSE "ready",
               first |-> ~instance])
  /\ UNCHANGED <<evars, lastCall>>
  /\ UNCHANGED <<fetches, ext, lastSet>>

\* Game.start(title, version), up to its first await: a later call returns at
\* once; the first one constructs the instance and emits "ready".
GameStart(title, version) ==
  /\ Len(starts) < MaxStarts
  /\ IF instance
     THEN /\ starts' = Append(starts, [op |-> "start", pc |-> "returned", first |-> FALSE])
          /\ UNCHANGED <<instance, running, cache, store, sent, ready>>
     ELSE LET S == SetSetting(SetSetting(Settings, GAME_NAME_KEY, title),
                              GAME_VERSION_KEY, version)
              h == ready.handlers
          IN /\ instance' = TRUE
             /\ running' = TRUE
             /\ cache' = S.cache
             /\ store' = S.store
             /\ sent' = Append(sent, "Init")
             /\ ready' = [ready EXCEPT
                            !.emits = @ + 1,
                            !.initSent = "Init" \in Range(sent'),
                            !.fetchesBefore = fetches,
                            !.idx = IF h = <<>> THEN 0 ELSE 1,
                            !.invoked = IF h = <<>> THEN @
                                        ELSE [@ EXCEPT ![h[1]] = @ + 1]]
             /\ starts' = Append(starts,
                   [op |-> "start", pc |-> IF h = <<>> THEN "loop" ELSE "ready",
                    first |-> TRUE])
  /\ UNCHANGED <<evars, lastCall>>
  /\ UNCHANGED <<fetches, ext, lastSet>>

\* Game.emit("ready") called by the application while no emit of "ready" is in
\* progress: the handlers of the one-shot list are invoked in turn.
GameEmit ==
  /\ ext < MaxExt
  /\ Len(starts) < MaxStarts
  /\ instance
  /\ \A s \in DOMAIN starts : starts[s].pc # "ready"
  /\ ext' = ext + 1
  /\ LET h == ready.handlers
     IN /\ ready' = [ready EXCEPT
                       !.idx = IF h = <<>> THEN 0 ELSE 1,
                       !.invoked = IF h = <<>> THEN @ ELSE [@ EXCEPT ![h[1]] = @ + 1]]
        /\ starts' = Append(starts,
              [op |-> "emit", pc |-> IF h = <<>> THEN "returned" ELSE "ready",
               first |-> FALSE])
  /\ UNCHANGED <<evars, lastCall>>
  /\ UNCHANGED <<instance, running, cache, store, sent, fetches, lastSet>>

\* The "ready" handler that emit awaits resolves: the next one is invoked, or
\* the one-shot list is deleted and emit, then the await of start, completes.
ReadyResolves(s) ==
  /\ s \in DOMAIN starts /\ starts[s].pc = "ready"
  /\ IF ready.idx < Len(ready.handlers)
     THEN /\ ready' = [ready EXCEPT !.idx = @ + 1,
                         !.invoked[ready.handlers[ready.idx + 1]] = @ + 1]
          /\ UNCHANGED starts
     ELSE /\ ready' = [ready EXCEPT !.handlers = <<>>, !.idx = 0]
          /\ starts' = [starts EXCEPT
                          ![s].pc = IF starts[s].op = "start" THEN "loop" ELSE "returned"]
  /\ UNCHANGED <<evars, lastCall>>
  /\ UNCHANGED <<instance, running, cache, store, sent, fetches, ext, lastSet>>

\* A variant of ReadyRejects: Game.start catches the rejection and goes on
\* to the packet loop.
ReadyRejectsCaught(s) ==
  /\ s \in DOMAIN starts /\ starts[s].pc = "ready"
  /\ starts' = [starts EXCEPT
                  ![s].pc = IF starts[s].op = "start" THEN "loop" ELSE "rejected"]
  /\ UNCHANGED <<evars, lastCall>>
  /\ UNCHANGED <<instance, running, cache, store, sent, ready, fetches, ext, lastSet>>

\* The "ready" handler that emit awaits rejects: emit and Game.start reject.
ReadyRejects(s) ==
  /\ s \in DOMAIN starts /\ starts[s].pc = "ready"
  /\ starts' = [starts EXCEPT ![s].pc = "rejected"]
  /\ UNCHANGED <<evars, lastCall>>
  /\ UNCHANGED <<instance, running, cache, store, sent, ready, fetches, ext, lastSet>>

\* The loop condition read as always true: fetchPacket is called again.
LoopCheckAlways(s) ==
  /\ s \in DOMAIN starts /\ starts[s].pc = "loop"
  /\ fetches < MaxPackets
  /\ fetches' = fetches + 1
  /\ starts' = [starts EXCEPT ![s].pc = "fetch"]
  /\ UNCHANGED <<evars, lastCall>>
  /\ UNCHANGED <<instance, running, cache, store, sent, ready, ext, lastSet>>

\* while (Game.instance.running): fetchPacket is called, or start returns.
LoopCheck(s) ==
  /\ s \in DOMAIN starts /\ starts[s].pc = "loop"
  /\ IF running
     THEN /\ fetches < MaxPackets
          /\ fetches' = fetches + 1
          /\ starts' = [starts EXCEPT ![s].pc = "fetch"]
     ELSE /\ starts' = [starts EXCEPT ![s].pc = "returned"]
          /\ UNCHANGED fetches
  /\ UNCHANGED <<evars, lastCall>>
  /\ UNCHANGED <<instance, running, cache, store, sent, ready, ext, lastSet>>

\* fetchPacket resolves with a packet and handlePacket handles it (ok), or
\* handlePacket throws and the catch block calls Game.shutdown().
FetchResolves(s, type, ok) ==
  /\ s \in DOMAIN starts /\ starts[s].pc = "fetch"
  /\ LET G == IF ok THEN HandlePacket(Client, type) ELSE Shutdown(Client, TRUE)
     IN running' = G.running /\ sent' = G.sent
  /\ starts' = [starts EXCEPT ![s].pc = "loop"]
  /\ UNCHANGED <<evars, lastCall>>
  /\ UNCHANGED <<instance, cache, store, ready, fetches, ext, lastSet>>

\* fetchPacket rejects: the catch block calls Game.shutdown().
FetchRejects(s) ==
  /\ s \in DOMAIN starts /\ starts[s].pc = "fetch"
  /\ LET G == Shutdown(Client, TRUE)
     IN running' = G.running /\ sent' = G.sent
  /\ starts' = [starts EXCEPT ![s].pc = "loop"]
  /\ UNCHANGED <<evars, lastCall>>
  /\ UNCHANGED <<instance, cache, store, ready, fetches, ext, lastSet>>

\* Game.shutdown(alertClient) called by the application on a started game
\* (before Game.start it throws and changes nothing).
GameShutdown(alertClient) ==
  /\ ext < MaxExt
  /\ instance
  /\ ext' = ext + 1
  /\ LET G == Shutdown(Client, alertClient)
     IN running' = G.running /\ sent' = G.sent
  /\ UNCHANGED <<evars, lastCall>>
  /\ UNCHANGED <<instance, cache, store, starts, ready, fetches, lastSet>>

\* handlePacket(packet) triggered by the application (a "shutdown" packet
\* before Game.start makes Game.shutdown throw and changes nothing).
ManualPacket(type) ==
  /\ ext < MaxExt
  /\ instance \/ type # "shutdown"
  /\ ext' = ext + 1
  /\ LET G == HandlePacket(Client, type)
     IN running' = G.running /\ sent' = G.sent
  /\ UNCHANGED <<evars, lastCall>>
  /\ UNCHANGED <<instance, cache, store, starts, ready, fetches, lastSet>>

\* Game.title = title
SetTitle(title) ==
  /\ ext < MaxExt
  /\ instance
  /\ ext' = ext + 1
  /\ lastSet' = [what |-> "title", value |-> title, title |-> Title, version |-> Version]
  /\ LET S == SetSetting(Settings, GAME_NAME_KEY, title)
     IN cache' = S.cache /\ store' = S.store
  /\ UNCHANGED <<evars, lastCall>>
  /\ UNCHANGED <<instance, running, sent, starts, ready, fetches>>

\* Game.version = version
SetVersion(version) ==
  /\ ext < MaxExt
  /\ instance
  /\ ext' = ext + 1
  /\ lastSet' = [what |-> "version", value |-> version, title |-> Title, version |-> Version]
  /\ LET S == SetSetting(Settings, GAME_NAME_KEY, version)
     IN cache' = S.cache /\ store' = S.store
  /\ UNCHANGED <<evars, lastCall>>
  /\ UNCHANGED <<instance, running, sent, starts, ready, fetches>>

NextGame ==
  \/ GameOnce
  \/ \E title, version \in Values : GameStart(title, version)
  \/ GameEmit
  \/ \E s \in 1..MaxStarts : ReadyResolves(s)
  \/ \E s \in 1..MaxStarts : ReadyRejects(s)
  \/ \E s \in 1..MaxStarts : LoopCheck(s)
  \/ \E s \in 1..MaxStarts, type \in PacketTypes, ok \in BOOLEAN :
       FetchResolves(s, type, ok)
  \/ \E s \in 1..MaxStarts : FetchRejects(s)
  \/ \E alertClient \in BOOLEAN : GameShutdown(alertClient)
  \/ \E type \in PacketTypes : ManualPacket(type)
  \/ \E title \in Values : SetTitle(title)
  \/ \E version \in Values : SetVersion(version)

SpecGame == Init /\ [][NextGame]_vars

\* The body of Game.start is a task of the event loop: once its await has
\* settled it runs on, so the loop condition is evaluated.
LoopRuns == WF_vars(\E s \in 1..MaxStarts : LoopCheck(s))

SpecGameFair == Init /\ [][NextGame]_vars /\ LoopRuns

(***************************************************************************)
(* The class GameSettings (API/Settings.ts) on its own: a fresh instance,  *)
(* with an empty cache, over a settings file that earlier sessions may     *)
(* have written, and written from now on through this instance only.       *)
(***************************************************************************)
InitSettings ==
  /\ onHandlers = [e \in Keys |-> <<>>]
  /\ onceHandlers = [e \in Keys |-> <<>>]
  /\ toRegisterOn = <<>>
  /\ toRegisterOnce = <<>>
  /\ toRemove = <<>>
  /\ isEmitting = FALSE
  /\ calls = <<>>
  /\ regs = <<>>
  /\ last = NoCall
  /\ removes = 0
  /\ rmArg = "none"
  /\ pre = 0
  /\ typed = FALSE
  /\ instance = FALSE
  /\ running = TRUE
  /\ cache = [k \in SettingKeys |-> Null]
  /\ store \in [SettingKeys -> Values \cup {Null}]
  /\ sent = <<>>
  /\ starts = <<>>
  /\ ready = [handlers |-> <<>>, invoked |-> <<>>, idx |-> 0, emits |-> 0,
              initSent |-> FALSE, fetchesBefore |-> 0]
  /\ fetches = 0
  /\ ext = 0
  /\ lastSet = [what |-> "none", value |-> Null, title |-> Null, version |-> Null]
  /\ lastCall = [what |-> "none"]

\* settings.getSetting(key, def), def undefined when it is left out.
GetSettingCall(key, def) ==
  /\ LET R == GetSetting(Settings, key, def)
     IN /\ cache' = R.settings.cache
        /\ store' = R.settings.store
        /\ lastCall' = [what |-> "getSetting", key |-> key, def |-> def,
                        value |-> R.value, before |-> Settings]
  /\ UNCHANGED evars
  /\ UNCHANGED <<instance, running, sent, starts, ready, fetches, ext, lastSet>>

\* settings.setSetting(key, value), value null to remove the key.
SetSettingCall(key, value) ==
  /\ LET S == SetSetting(Settings, key, value)
     IN /\ cache' = S.cache
        /\ store' = S.store
  /\ lastCall' = [what |-> "setSetting", key |-> key, value |-> value,
                  before |-> Settings]
  /\ UNCHANGED evars
  /\ UNCHANGED <<instance, running, sent, starts, ready, fetches, ext, lastSet>>

NextSettings ==
  \/ \E key \in SettingKeys, def \in Values \cup {Undefined} :
       GetSettingCall(key, def)
  \/ \E key \in SettingKeys, value \in Values \cup {Null} :
       SetSettingCall(key, value)

SpecSettings == InitSettings /\ [][NextSettings]_vars

(***************************************************************************)
(* The claims.                                                             *)
(***************************************************************************)
\* The emit calls whose history is on record: those running, and the last settled.
AllCalls == Range(calls) \cup {last}

Settled(k) == k.status \in {"resolved", "rejected"}

InRegistry(r) ==
  \E e \in Keys : r \in Range(onHandlers[e]) \cup Range(onceHandlers[e])

InQueue(r) ==
  \/ \E i \in DOMAIN toRegisterOn : toRegisterOn[i][2] = r
  \/ \E i \in DOMAIN toRegisterOnce : toRegisterOnce[i][2] = r

\* C1: a handler registered with on(K, h) while an emit(K) call is in progress
\* is not invoked during that same emit(K) call: every on-registration an
\* emit(K) call invokes was made before that call started.
C1_OnDuringEmitNotInvoked ==
  \A k \in AllCalls : \A i \in DOMAIN k.invoked :
    (regs[k.invoked[i]].kind = "on" /\ regs[k.invoked[i]].event = k.event)
      => k.invoked[i] <= k.regsAtStart

\* C2: a handler registered with on(K, h) while an emission is in progress is
\* invoked by the next emit(K) call that starts after the on call (read here
\* in the claim's favour: when that next call starts with no emission in
\* progress, resolves, and removeListener was never called).
C2_DeferredOnRunsInNextEmit ==
  \A r \in DOMAIN regs :
    (/\ regs[r].kind = "on" /\ regs[r].deferred
     /\ removes = 0
     /\ last.id # 0 /\ last.id = regs[r].nextCall
     /\ last.alone /\ last.status = "resolved")
      => r \in Range(last.invoked)

\* C3: a handler registered by a single once(K, h) call made while no emission
\* is in progress is invoked at most once, over all emit calls.
C3_OnceInvokedAtMostOnce ==
  \A r \in DOMAIN regs :
    (regs[r].kind = "once" /\ ~regs[r].deferred) => regs[r].count <= 1

\* C4: a handler registered with once(K, h) while an emission is in progress
\* is deferred like on and stays one-shot: no call that was running when it
\* was registered invokes it, it is invoked at most once, and once a call
\* that invoked it has settled it is registered nowhere.
C4_DeferredOnceStaysOneShot ==
  \A r \in DOMAIN regs :
    (regs[r].kind = "once" /\ regs[r].deferred) =>
      /\ regs[r].count <= 1
      /\ \A k \in AllCalls : r \in Range(k.invoked) => r <= k.regsAtStart
      /\ (Settled(last) /\ r \in Range(last.invoked)) => ~InRegistry(r)

\* C5: the additions and removals queued during a top-level emit that rejected
\* have been applied once a later emit call (one that started after them, with
\* no emission in progress) has completed without error.
C5_QueuedAppliedByLaterEmit ==
  \A r \in DOMAIN regs :
    (last.status = "resolved" /\ last.alone /\ last.regsAtStart >= r) =>
      /\ regs[r].addRej => ~InQueue(r)
      /\ regs[r].rmRej => ~InRegistry(r)

\* C6: when an emit call has settled, by resolution or by rejection, the
\* dispatch flag has the value it had before the call.
C6_FlagRestoredOnSettle ==
  Settled(last) => last.flagAfter = last.wasEmitting

\* C7: the handlers invoked by an emit(K) call that resolves are exactly the
\* persistent list of K followed by the one-shot list of K as they stood when
\* the call started.
C7_InvokedIsSnapshot ==
  last.status = "resolved" => last.invoked = last.snapOn \o last.snapOnce

\* C8: a handler for which removeListener was called while an emission was in
\* progress is invoked by no emit call that starts after the removeListener
\* call (read here in the claim's favour: by no such call that starts with
\* no emission in progress).
C8_RemovedNotInvokedLater ==
  \A k \in AllCalls : \A i \in DOMAIN k.invoked :
    LET g == regs[k.invoked[i]]
    IN (g.rmAt >= 0 /\ g.rmDeferred /\ k.alone) => k.id <= g.rmAt

\* C9: if a handler invoked by emit(K) rejects, the emit call rejects at that
\* point and invokes no handler later in its dispatch order: no later
\* persistent handler and, when a persistent handler rejected, no one-shot
\* handler.
C9_RejectionStopsDispatch ==
  \A k \in AllCalls :
    k.rejAt > 0 =>
      /\ k.status = "rejected"
      /\ Len(k.invoked) = k.rejAt
      /\ k.invoked[k.rejAt] = k.arr[k.idx]
      /\ k.pc = "on" => k.nOn = Len(k.invoked)

\* C9's case: a persistent handler rejected while a later persistent handler
\* and a one-shot handler of the key were still to come; neither was invoked.
C9_Witness ==
  /\ last.status = "rejected" /\ last.pc = "on"
  /\ last.idx < Len(last.arr)
  /\ onceHandlers[last.event] # <<>>
  /\ regs[last.arr[last.idx + 1]].count = 0
  /\ regs[onceHandlers[last.event][1]].count = 0

\* C10: once an emit(K) call has settled, the one-shot handlers whose
\* invocation by it completed are no longer in the one-shot registry of K,
\* also when the call settled by the rejection of a later one-shot handler.
C10_InvokedOnceHandlersGone ==
  Settled(last) =>
    \A i \in (last.nOn + 1)..Len(last.invoked) :
      (last.status = "resolved" \/ i < Len(last.invoked))
        => last.invoked[i] \notin Range(onceHandlers[last.event])

C12_PersistentBeforeOneShot ==
  \A k \in AllCalls : \A i, j \in DOMAIN k.invoked :
    (i < j /\ regs[k.invoked[i]].kind = "once") => regs[k.invoked[j]].kind # "on"

\* C13: the handlers registered with on for one key, whether registered while
\* idle or queued during an emission, and with removals in between, stay in
\* the persistent list in the order of their on calls, and every emit call
\* invokes them in that order.
C13_OnHandlersInRegistrationOrder ==
  /\ \A e \in Keys : \A i, j \in DOMAIN onHandlers[e] :
       (i < j /\ regs[onHandlers[e][i]].kind = "on" /\ regs[onHandlers[e][j]].kind = "on")
         => onHandlers[e][i] < onHandlers[e][j]
  /\ \A k \in AllCalls : \A i, j \in DOMAIN k.invoked :
       (i < j /\ regs[k.invoked[i]].kind = "on" /\ regs[k.invoked[j]].kind = "on")
         => k.invoked[i] < k.invoked[j]

\* C13 witness: a call has invoked two handlers registered with on, the
\* second of which was queued during an emission.
C13_Witness ==
  \E k \in AllCalls : \E i, j \in DOMAIN k.invoked :
    /\ i < j
    /\ regs[k.invoked[i]].kind = "on" /\ regs[k.invoked[j]].kind = "on"
    /\ regs[k.invoked[j]].deferred /\ ~regs[k.invoked[i]].deferred

\* C14: within one emit call the next handler is not invoked until the
\* promise of the previous one has resolved: the handlers a call has started
\* are at most one more than the handlers whose promise it has seen resolve,
\* and a call that resolved has seen all of them resolve.
C14_HandlersAwaitedOneByOne ==
  \A k \in AllCalls :
    /\ Len(k.invoked) <= k.done + 1
    /\ k.status = "running" => Len(k.invoked) = k.done + 1
    /\ k.status = "resolved" => Len(k.invoked) = k.done

\* C14 witness: a running call has started its third handler after the
\* first two resolved.
C14_Witness ==
  \E k \in Range(calls) :
    k.status = "running" /\ Len(k.invoked) = 3 /\ k.done = 2

\* The registrations of the given kind that are queued for key e, in queue order.
QueuedOf(e, kind) ==
  LET q == SelectSeq(toRegisterOn \o toRegisterOnce,
                     LAMBDA p : p[1] = e /\ regs[p[2]].kind = kind)
  IN ArrayOf([i \in DOMAIN q |-> q[i][2]], Len(q))

\* The list l without the registrations whose handler is queued for removal.
WithoutQueuedRemovals(l) ==
  SelectSeq(l, LAMBDA r : regs[r].handler \notin Range(toRemove))

\* C15: when the dispatch flag returns to false at the end of an emission,
\* the queued on additions are appended to the persistent lists in queue
\* order, then the queued once additions to the one-shot lists in queue
\* order, then the queued removals are applied, and the three queues are
\* empty afterwards.
C15_FlushOrder ==
  [][(isEmitting /\ ~isEmitting') =>
       /\ toRegisterOn' = <<>> /\ toRegisterOnce' = <<>> /\ toRemove' = <<>>
       /\ \A e \in Keys :
            /\ onHandlers'[e] =
                 WithoutQueuedRemovals(onHandlers[e] \o QueuedOf(e, "on"))
            /\ onceHandlers'[e] =
                 WithoutQueuedRemovals(
                   (IF last'.event = e /\ last'.pc = "once" THEN <<>> ELSE onceHandlers[e])
                     \o QueuedOf(e, "once"))]_vars

\* C16: when an emit call nested inside a handler completes, the dispatch
\* flag stays true and no queued addition or removal is applied.
C16_NestedCompletionKeepsFlag ==
  (last.parent # 0 /\ last.status = "resolved") =>
    (last.flagAfter /\ last.flushed = 0)

\* The registrations of handler h that are in a persistent or one-shot list.
Occurrences(h) ==
  {r \in DOMAIN regs : regs[r].handler = h /\ InRegistry(r)}

\* C17: removeListener(h) called while the dispatch flag is true changes
\* neither registry at the time of the call and queues h; when the flag
\* returns to false no occurrence of a queued handler is left in the
\* persistent or one-shot list of any key.
C17_DeferredRemoveListener ==
  [][/\ (removes' # removes /\ isEmitting) =>
          /\ onHandlers' = onHandlers /\ onceHandlers' = onceHandlers
          /\ toRemove' = Append(toRemove, rmArg')
     /\ (isEmitting /\ ~isEmitting') =>
          \A h \in Range(toRemove) : Occurrences(h)' = {}]_vars

\* C17 witness: a handler registered with on while idle, removed by a
\* removeListener call made during an emission, is gone from the lists after
\* the flush.
C17_Witness ==
  \E r \in DOMAIN regs :
    /\ regs[r].kind = "on" /\ ~regs[r].deferred /\ regs[r].rmDeferred
    /\ ~isEmitting /\ last.flushed > 0 /\ ~InRegistry(r)

\* The list l with every registration of handler h filtered out.
Without(l, h) == SelectSeq(l, LAMBDA r : regs[r].handler # h)

\* C18: removeListener(h) called while no emit call is in progress leaves
\* both registries equal to their previous content with every occurrence of
\* h filtered out, for every key; when h is registered nowhere the
\* registries are unchanged.
C18_IdleRemoveListenerFilters ==
  [][(removes' # removes /\ Running(Bus) = {}) =>
       \A e \in Keys :
         /\ onHandlers'[e] = Without(onHandlers[e], rmArg')
         /\ onceHandlers'[e] = Without(onceHandlers[e], rmArg')]_vars

\* C19: in every reachable state in which the dispatch flag is false the
\* three deferral queues are empty, and an entry is appended to a queue only
\* by a call made while the flag is true.
C19_QueuesEmptyWhenIdle ==
  /\ [](~isEmitting => (toRegisterOn = <<>> /\ toRegisterOnce = <<>> /\ toRemove = <<>>))
  /\ [][(\/ Len(toRegisterOn') > Len(toRegisterOn)
         \/ Len(toRegisterOnce') > Len(toRegisterOnce)
         \/ Len(toRemove') > Len(toRemove)) => (isEmitting /\ isEmitting')]_vars

\* C19 witness: the flag is false and the queues are empty after an emit
\* call applied queued entries.
C19_Witness ==
  /\ ~isEmitting /\ last.flushed > 1
  /\ toRegisterOn = <<>> /\ toRegisterOnce = <<>> /\ toRemove = <<>>

\* The handlers a removeListener call of this step, or a queued one, names.
BeingRemoved == Range(toRemove) \cup (IF removes' # removes THEN {rmArg'} ELSE {})

\* C20: a handler in the persistent list of a key stays in that list, at the
\* same relative position, across every emit, on, once and waitFor call; only
\* a removeListener call for that handler, applied directly or at the flush,
\* takes it out: in every step the handlers that leave the list are ones
\* removeListener was called for, the others form a prefix of the new list,
\* and a step that is neither a removeListener call nor a flush takes none out.
C20_PersistentHandlerStays ==
  [][\A e \in Keys :
       LET kept == SelectSeq(onHandlers[e], LAMBDA r : r \in Range(onHandlers'[e]))
       IN /\ \A r \in Range(onHandlers[e]) \ Range(onHandlers'[e]) :
               regs[r].handler \in BeingRemoved
          /\ SubSeq(onHandlers'[e], 1, Len(kept)) = kept
          /\ (removes' = removes /\ ~(isEmitting /\ ~isEmitting'))
               => kept = onHandlers[e]]_vars

\* C20 witness: a handler registered with on has been invoked by two emit
\* calls that resolved, and is still in the persistent list of its key.
C20_Witness ==
  \E r \in DOMAIN regs :
    /\ regs[r].kind = "on" /\ regs[r].count = 2
    /\ r \in Range(onHandlers[regs[r].event])
    /\ ~isEmitting /\ last.status = "resolved" /\ Running(Bus) = {}

\* C21: registering the same handler n times with on(K, h) makes every
\* emit(K) that resolves invoke h exactly n times (read in the claim's
\* favour: the n on calls were made before the emit call started, the emit
\* call started with no other emit call in progress, and removeListener was
\* never called).
C21_DuplicateOnInvokedNTimes ==
  (last.status = "resolved" /\ last.alone /\ removes = 0) =>
    \A h \in Handlers :
      Cardinality({i \in DOMAIN last.invoked :
                     regs[last.invoked[i]].kind = "on"
                     /\ regs[last.invoked[i]].handler = h})
        = Cardinality({r \in 1..last.regsAtStart :
                         regs[r].kind = "on" /\ regs[r].event = last.event
                         /\ regs[r].handler = h})

\* C22 (as stated): a handler registered for key K both with on and with
\* once is invoked no more than once by a single emit(K) call.
C22_OnAndOnceInvokedOnce ==
  \A k \in AllCalls : \A i, j \in DOMAIN k.invoked :
    (/\ regs[k.invoked[i]].kind = "on" /\ regs[k.invoked[j]].kind = "once"
     /\ ~regs[k.invoked[j]].wait)
      => regs[k.invoked[i]].handler # regs[k.invoked[j]].handler

\* C22 (amended): a single emit call invokes a handler at most once for each
\* of its registrations: no registration is invoked twice by one call, so a
\* handler registered once with on and once with once is invoked at most
\* twice by one emit(K) call.
C22_EachRegistrationInvokedOnce ==
  \A k \in AllCalls : \A i, j \in DOMAIN k.invoked :
    i # j => k.invoked[i] # k.invoked[j]

\* C22 witness: one emit call has invoked the same handler through its on
\* registration and through its once registration.
C22_Witness ==
  \E k \in AllCalls : \E i, j \in DOMAIN k.invoked :
    /\ regs[k.invoked[i]].kind = "on" /\ regs[k.invoked[j]].kind = "once"
    /\ ~regs[k.invoked[j]].wait
    /\ regs[k.invoked[i]].handler = regs[k.invoked[j]].handler
    /\ regs[k.invoked[i]].event = regs[k.invoked[j]].event

\* C23: the promise of waitFor(K) stays pending until an emit(K) call reaches
\* its handler: it is resolved exactly when a call has invoked the handler,
\* and the step that resolves it is the invocation of the handler by a call
\* of key K; emits of other keys and an emit(K) that rejects before the
\* handler leave it pending.  (The handler only calls resolve, so the
\* promise has no way to reject: it is pending or resolved.)
C23_WaitForPendingUntilReached ==
  /\ [](\A r \in DOMAIN regs :
          regs[r].wait => (regs[r].value # 0 <=> regs[r].count > 0))
  /\ [][\A r \in DOMAIN regs :
          (regs[r].wait /\ regs[r].value = 0 /\ regs'[r].value # 0) =>
            \E c \in DOMAIN calls' :
              /\ calls'[c].id = regs'[r].value
              /\ calls'[c].status = "running"
              /\ calls'[c].event = regs[r].event
              /\ calls'[c].invoked # <<>>
              /\ calls'[c].invoked[Len(calls'[c].invoked)] = r]_vars

\* C23 witness: a waitFor promise is still pending after the emit of its key
\* that started after the waitFor call has rejected.
C23_Witness ==
  \E r \in DOMAIN regs :
    /\ regs[r].wait /\ regs[r].value = 0
    /\ last.status = "rejected" /\ last.event = regs[r].event
    /\ last.id = regs[r].nextCall
    /\ r \in Range(last.snapOnce)

\* The key of the emit call that starts in this step.
StartedEvent ==
  IF calls'[Len(calls')].status = "running"
  THEN calls'[Len(calls')].event ELSE last'.event

\* C24: emit(K) for a key with no registered handler resolves, in the same
\* step, without invoking any handler and leaves both registries unchanged.
C24_EmitWithoutHandlers ==
  [][(/\ Len(calls') = Len(calls) + 1
      /\ onHandlers[StartedEvent] = <<>>
      /\ onceHandlers[StartedEvent] = <<>>) =>
       /\ calls'[Len(calls')].status = "resolved"
       /\ last'.id = Len(calls') /\ last'.status = "resolved"
       /\ last'.invoked = <<>>
       /\ onHandlers' = onHandlers /\ onceHandlers' = onceHandlers]_vars

\* C24 witness: an emit for a key without handlers has resolved, invoking
\* nothing, while an addition was waiting in a queue.
C24_Witness ==
  /\ last.status = "resolved" /\ last.invoked = <<>>
  /\ last.snapOn = <<>> /\ last.snapOnce = <<>>
  /\ toRegisterOn # <<>>
  /\ \E r \in DOMAIN regs : InRegistry(r)

\* Emit call c has started and has not settled.
Pending(c) == c \in DOMAIN calls /\ calls[c].status = "running"

\* C25: an emit call goes on (invokes its next handler, or settles) only in
\* the step in which the handler it awaits settles, so a handler that never
\* settles stalls the call and every handler after it; and when every
\* awaited handler settles, every emit call settles in the end (no emit call
\* stays pending for ever).
C25_EmitSettlesIffHandlersSettle ==
  /\ [][\A c \in DOMAIN calls :
          (/\ calls[c].status = "running"
           /\ \/ calls'[c].status # "running"
              \/ Len(calls'[c].invoked) > Len(calls[c].invoked))
            => (HandlerResolves(c) \/ HandlerRejects(c))]_vars
  /\ []<>(\A c \in 1..MaxOps : ~Pending(c))

\* C25 witness: an emit call has resolved after awaiting three handlers, one
\* after the other.
C25_Witness ==
  last.status = "resolved" /\ last.done = 3 /\ Len(last.invoked) = 3

\* C26: in the class Events<A> of part_005, a handler registered with
\* on(K, h) or once(K, h) while an emit(K) call is in progress is not called
\* during that emission: every registration an emit(K) call invokes was made
\* before that call started.
C26_TypedAddDuringEmitNotInvoked ==
  \A k \in AllCalls : \A i \in DOMAIN k.invoked :
    regs[k.invoked[i]].event = k.event => k.invoked[i] <= k.regsAtStart

\* The call of Game.start that constructed the game, if any.
FirstStart == {s \in DOMAIN starts : starts[s].first}

\* C27: Game.start emits "ready" exactly once per session, after the Init
\* packet has been sent and before the first fetchPacket call; a one-shot
\* "ready" handler registered with Game.once before Game.start is invoked
\* exactly once: never more than once, and once by the time Game.start has
\* entered the packet loop.
C27_ReadyOncePerSession ==
  /\ ready.emits = (IF instance THEN 1 ELSE 0)
  /\ ready.emits = 1 => ready.initSent /\ ready.fetchesBefore = 0
  /\ fetches > 0 => ready.emits = 1
  /\ \A h \in DOMAIN ready.invoked :
       /\ ready.invoked[h] <= 1
       /\ (\E s \in FirstStart : starts[s].pc \in {"loop", "fetch", "returned"})
            => ready.invoked[h] = 1

\* The packets of one type sent to the client so far.
Sent(type) == {i \in DOMAIN sent : sent[i] = type}

\* The calls of Game.start that are before or inside the packet loop.
Looping ==
  {s \in DOMAIN starts :
     starts[s].op = "start" /\ starts[s].pc \in {"ready", "loop", "fetch"}}

\* C28: a second or later call of Game.start returns at once: it creates no
\* new Game instance (the settings and running stay as they are), sends no
\* Init packet, does not emit "ready" again and starts no second packet loop.
C28_LaterStartReturnsAtOnce ==
  /\ [][(/\ instance
         /\ Len(starts') = Len(starts) + 1
         /\ starts'[Len(starts')].op = "start")
          => /\ UNCHANGED <<instance, running, cache, store, sent, ready, fetches>>
             /\ starts' = Append(starts, [op |-> "start", pc |-> "returned",
                                          first |-> FALSE])]_vars
  /\ [](/\ Cardinality(Sent("Init")) <= 1
        /\ ready.emits <= 1
        /\ Cardinality(Looping) <= 1)

\* A second call of Game.start has been made, after the first one reached the
\* packet loop.
C28_Witness ==
  \E s, t \in DOMAIN starts :
    /\ s < t
    /\ starts[s].first /\ starts[s].pc \in {"loop", "fetch"}
    /\ starts[t].op = "start" /\ ~starts[t].first

\* C29: after a started game executes Game.version = v, reading Game.version
\* returns v and Game.title is what it was before the assignment.
C29_VersionSetterSetsVersion ==
  lastSet.what = "version" => Version = lastSet.value /\ Title = lastSet.title

\* C30: over any sequence of Game.shutdown calls and handled packets, running
\* goes from true to false at most once and never back to true, and at most
\* one Shutdown packet is sent to the client; a Game.shutdown call made when
\* running is already false sends nothing and changes nothing.
C30_ShutdownOnce ==
  /\ [][/\ running' => running
        /\ ~running => Sent("Shutdown")' = Sent("Shutdown")
        /\ (~running /\ \E alertClient \in BOOLEAN : GameShutdown(alertClient))
             => UNCHANGED <<instance, running, cache, store, sent, starts,
                            ready, fetches, lastSet>>]_vars
  /\ [](Cardinality(Sent("Shutdown")) <= 1)

\* The application has made two calls that reach Game.shutdown, the second of
\* them with running already false, and one Shutdown packet was sent.
C30_Witness ==
  /\ ~running
  /\ Cardinality(Sent("Shutdown")) = 1
  /\ ext = 2
  /\ lastSet.what = "none"
  /\ Sent("ImportAsset") = {}
  /\ \A s \in DOMAIN starts : starts[s].op = "start"

\* Game.start call s has reached the loop condition with running false.
LoopOver(s) == s \in DOMAIN starts /\ starts[s].pc = "loop" /\ ~running

\* The promise of Game.start call s has resolved.
Returned(s) == s \in DOMAIN starts /\ starts[s].pc = "returned"

\* C31: once the packet loop has handled a shutdown packet, or fetchPacket or
\* handlePacket has thrown, running is false and the promise of Game.start
\* resolves; a call that has reached the packet loop never rejects; after
\* running has become false no further fetchPacket call is issued.
C31_StartResolvesAfterShutdown ==
  /\ [][\A s \in DOMAIN starts :
          (\/ FetchResolves(s, "shutdown", TRUE)
           \/ \E type \in PacketTypes : FetchResolves(s, type, FALSE)
           \/ FetchRejects(s))
            => LoopOver(s)']_vars
  /\ [][\A s \in DOMAIN starts :
          starts[s].pc \in {"loop", "fetch"} => starts'[s].pc # "rejected"]_vars
  /\ [][~running => fetches' = fetches]_vars
  /\ \A s \in 1..MaxStarts : LoopOver(s) ~> Returned(s)

\* Game.start has resolved after a packet loop that fetched a packet.
C31_Witness ==
  \E s \in DOMAIN starts :
    starts[s].first /\ starts[s].pc = "returned" /\ fetches > 0 /\ ext = 0

\* C32: getSetting(key, def) for a key absent from the backing store returns
\* def and leaves def stored under key in the backing store; for a key present
\* in the store it returns the stored value and writes nothing; getSetting(key)
\* without default for an absent key returns null and writes nothing.
C32_GetSettingDefault ==
  lastCall.what = "getSetting" =>
    LET stored == lastCall.before.store[lastCall.key]
    IN /\ (stored = Null /\ lastCall.def # Undefined)
            => lastCall.value = lastCall.def /\ store[lastCall.key] = lastCall.def
       /\ stored # Null
            => lastCall.value = stored /\ store = lastCall.before.store
       /\ (stored = Null /\ lastCall.def = Undefined)
            => lastCall.value = Null /\ store = lastCall.before.store

\* C33: if two emit calls overlap without nesting and the first completes
\* before the second, then after both calls have resolved the dispatch flag
\* is false, so that on, once and removeListener take effect immediately:
\* whenever every emit call made so far has resolved, the flag is false.
C33_FlagFalseAfterOverlap ==
  (calls # <<>> /\ \A c \in DOMAIN calls : calls[c].status = "resolved")
    => ~isEmitting

\* C34: queued additions and removals are never applied to the registries
\* while any emit call is still iterating its handler lists, also when two
\* emit calls overlap without nesting: a step after which some emit call is
\* still running takes nothing out of the three queues.
C34_NoFlushWhileIterating ==
  [][(\E c \in DOMAIN calls' : calls'[c].status = "running")
       => /\ Len(toRegisterOn') >= Len(toRegisterOn)
          /\ Len(toRegisterOnce') >= Len(toRegisterOnce)
          /\ Len(toRemove') >= Len(toRemove)]_vars

\* C35: if a persistent handler of K calls emit(K, b) while emit(K, a) is
\* dispatching, every one-shot handler of K is invoked once in total, by the
\* inner call (which passes its arguments b), and the outer call invokes no
\* one-shot handler.  Checked while the inner call is the last call that
\* settled and the outer call is running: no one-shot registration of K has
\* been invoked twice, and when the inner call resolved the outer call has
\* invoked no one-shot registration.
C35_OneShotByInnerCallOnly ==
  \A c \in DOMAIN calls :
    (/\ calls[c].status = "running"
     /\ last.parent = c /\ last.fromOn /\ last.event = calls[c].event)
      => /\ \A r \in DOMAIN regs :
              (regs[r].kind = "once" /\ regs[r].event = last.event)
                => regs[r].count <= 1
         /\ last.status = "resolved"
              => \A i \in DOMAIN calls[c].invoked :
                   regs[calls[c].invoked[i]].kind # "once"

\* C36: a handler h for which both an addition (on(K, h) or once(K, h)) and a
\* removal (removeListener(h)) are queued during the same emission is
\* registered nowhere after the flush, whichever of the two calls was made
\* first: the step that returns the dispatch flag to false leaves no
\* registration of such a handler in any persistent or one-shot list.
C36_QueuedAddAndRemoveCancel ==
  [][(isEmitting /\ ~isEmitting') =>
       \A r \in DOMAIN regs :
         (InQueue(r) /\ regs[r].handler \in Range(toRemove))
           => (~InRegistry(r))' /\ Occurrences(regs[r].handler)' = {}]_vars

\* C36 witness: a registration queued during an emission, whose handler was
\* named by a removeListener call queued during the same emission, is in no
\* list after the flush that applied both.
C36_Witness ==
  \E r \in DOMAIN regs :
    /\ regs[r].deferred /\ regs[r].rmDeferred /\ regs[r].count = 0
    /\ ~isEmitting /\ last.flushed >= 2
    /\ ~InRegistry(r) /\ ~InQueue(r)

\* The call of Game.start that constructed the game has rejected.
StartRejected == \E s \in FirstStart : starts[s].pc = "rejected"

\* C37: if a "ready" handler rejects, the promise of Game.start rejects with
\* that rejection, no fetchPacket call is ever issued, no Shutdown packet is
\* sent (other than by Game.shutdown calls of the application), and a later
\* Game.start call returns without starting the packet loop.
C37_ReadyRejectionStopsStart ==
  /\ [][\A s \in DOMAIN starts :
          (starts[s].op = "start" /\ ReadyRejects(s))
            => /\ starts'[s].pc = "rejected"
               /\ UNCHANGED <<running, sent, fetches>>]_vars
  /\ [](StartRejected =>
          /\ fetches = 0
          /\ Looping = {}
          /\ Cardinality(Sent("Shutdown")) <= ext
          /\ \A s \in DOMAIN starts :
               (starts[s].op = "start" /\ ~starts[s].first)
                 => starts[s].pc = "returned")

\* C37 witness: Game.start has rejected because a "ready" handler rejected,
\* and a later call of Game.start has returned.
C37_Witness ==
  /\ StartRejected
  /\ \E s \in DOMAIN starts : starts[s].op = "start" /\ ~starts[s].first

\* C38: after any sequence of getSetting and setSetting calls, the backing
\* store being written only through GameSettings, every key held in the cache
\* has the same value in the backing store, a key set to null is in neither,
\* and getSetting(key) returns what the backing store holds for key.
C38_CacheAgreesWithStore ==
  lastCall.what # "none" =>
    /\ \A key \in SettingKeys :
         /\ InCache(Settings, key) => CacheRead(Settings, key) = store[key]
         /\ GetSetting(Settings, key, Undefined).value = store[key]
    /\ (lastCall.what = "setSetting" /\ lastCall.value = Null)
         => ~InCache(Settings, lastCall.key) /\ store[lastCall.key] = Null

====
